---- MODULE Spec2Model ----
(***************************************************************************)
(* Order / payment reconciliation of the cherrylconcept API: the loyalty   *)
(* ledger (orders/models.py), the order aggregate (orders/models.py),      *)
(* checkout (orders/serializers.py, orders/views.py), the Paystack webhook *)
(* processor (orders/paystack_utils.py), the verify_payment poll and the   *)
(* refund (orders/paystack_views.py), the fulfilment update                *)
(* (orders/views.py, orders/admin.py), the price update                    *)
(* (products/views.py), the webhook task with its retries and the periodic *)
(* sweep of unprocessed events (orders/tasks.py).                          *)
(*                                                                         *)
(* The relational store is modelled table by table.  A model instance held *)
(* by a handler is a copy of a row; Model.save() writes every column of    *)
(* the copy back, Model.save(update_fields=F) writes the columns of F that *)
(* the model has.  The handlers are modelled as they are written to        *)
(* behave: that Django rejects a name in update_fields or in the defaults  *)
(* of get_or_create which is no field of the model (updated_at of          *)
(* PaystackEvent, authorization_code, card_type, bank and last_4 of        *)
(* PaymentTransaction) is not modelled.                                    *)
(* Amounts are integers in minor units (kobo / cents).                     *)
(***************************************************************************)
EXTENDS Integers, Sequences, FiniteSets, Bags, TLC

VARIABLES
    orders,     \* table orders: order id -> row or NoRow
    items,      \* table order_items: sequence of rows
    products,   \* table products: product id -> price in hundredths
    addresses,  \* table shipping_addresses: sequence of rows
    accounts,   \* table loyalty_accounts: user -> row or NoRow
    ledger,     \* table loyalty_transactions: sequence of rows, oldest first
    events,     \* table paystack_events: sequence of rows
    ptx,        \* table payment_transactions: sequence of rows
    queue,      \* Celery queue: the e-mail and alert tasks enqueued so far, in order
    tasks,      \* Celery queue: the webhook task messages not yet run, a bag
    gw,         \* the gateway's own status of each payment reference
    proc,       \* the concurrent request handlers / workers and their locals
    hist,       \* the current streak of identical sequential calls (see Record)
    steps       \* number of sequential operations performed

vars == <<orders, items, products, addresses, accounts, ledger, events, ptx, queue, tasks,
          gw, proc, hist, steps>>

(***************************************************************************)
(* Bounds of the model.                                                    *)
(***************************************************************************)
MaxPoints == 2          \* largest point amount passed to a ledger operation
MaxLedgerOps == 4       \* ledger operations in one run of SpecLedger
MaxSeqOps == 3          \* handler calls in one run of SpecSeq

OrderIds == {"o1", "o2"}
Products == {"p1", "p2"}
Users == {"u1"}
NoUser == "nobody"      \* Order.user = None (guest checkout)
NoOrder == "no-order"   \* LoyaltyTransaction.order = None
NoRow == [absent |-> TRUE]

(***************************************************************************)
(* The world a handler acts on: the tables and the task queue.             *)
(***************************************************************************)
World ==
    [orders |-> orders, items |-> items, products |-> products,
     addresses |-> addresses, accounts |-> accounts, ledger |-> ledger,
     events |-> events, ptx |-> ptx, queue |-> queue]

SetWorld(w) ==
    /\ orders' = w.orders
    /\ items' = w.items
    /\ products' = w.products
    /\ addresses' = w.addresses
    /\ accounts' = w.accounts
    /\ ledger' = w.ledger
    /\ events' = w.events
    /\ ptx' = w.ptx
    /\ queue' = w.queue

(***************************************************************************)
(* Loyalty ledger: LoyaltyAccount and LoyaltyTransaction.                  *)
(***************************************************************************)
NewAccount(user) ==
    [user |-> user, total_points_earned |-> 0, total_points_used |-> 0,
     current_balance |-> 0, tier |-> "Bronze"]

LoyaltyTransaction(account, type, points, order) ==
    [account |-> account.user, transaction_type |-> type,
     points |-> points, order |-> order]

\* A tier function that takes a threshold for reached only when exceeded.
update_tier_above(a) ==
    [a EXCEPT !.tier =
        IF a.total_points_earned > 10000 THEN "Platinum"
        ELSE IF a.total_points_earned > 5000 THEN "Gold"
        ELSE IF a.total_points_earned > 1000 THEN "Silver"
        ELSE "Bronze"]

update_tier(a) ==
    [a EXCEPT !.tier =
        IF a.total_points_earned >= 10000 THEN "Platinum"
        ELSE IF a.total_points_earned >= 5000 THEN "Gold"
        ELSE IF a.total_points_earned >= 1000 THEN "Silver"
        ELSE "Bronze"]

\* LoyaltyAccount.save(): every column of the instance a is written.
save_account(w, a) == [w EXCEPT !.accounts[a.user] = a]

\* add_points on the instance a; the result is the world, the instance and
\* the return value.
add_points(w, a, points, order) ==
    LET a1 == update_tier([a EXCEPT !.total_points_earned = @ + points,
                                    !.current_balance = @ + points])
        w1 == save_account(w, a1)
    IN  [w |-> [w1 EXCEPT !.ledger =
                    Append(@, LoyaltyTransaction(a1, "earned", points, order))],
         obj |-> a1, ret |-> "None"]

use_points_unguarded(w, a, points, order) ==
    LET a1 == [a EXCEPT !.total_points_used = @ + points,
                        !.current_balance = @ - points]
        w1 == save_account(w, a1)
    IN  [w |-> [w1 EXCEPT !.ledger =
                    Append(@, LoyaltyTransaction(a1, "used", points, order))],
         obj |-> a1, ret |-> "True"]

use_points(w, a, points, order) ==
    IF a.current_balance >= points
    THEN LET a1 == [a EXCEPT !.total_points_used = @ + points,
                             !.current_balance = @ - points]
             w1 == save_account(w, a1)
         IN  [w |-> [w1 EXCEPT !.ledger =
                        Append(@, LoyaltyTransaction(a1, "used", points, order))],
              obj |-> a1, ret |-> "True"]
    ELSE [w |-> w, obj |-> a, ret |-> "False"]

reverse_used_points_keeps_used(w, a, points, order) ==
    LET a1 == update_tier([a EXCEPT !.current_balance = @ + points])
        w1 == save_account(w, a1)
    IN  [w |-> [w1 EXCEPT !.ledger =
                    Append(@, LoyaltyTransaction(a1, "reversal", points, order))],
         obj |-> a1, ret |-> "None"]

reverse_used_points(w, a, points, order) ==
    LET a1 == update_tier([a EXCEPT !.total_points_used = @ - points,
                                    !.current_balance = @ + points])
        w1 == save_account(w, a1)
    IN  [w |-> [w1 EXCEPT !.ledger =
                    Append(@, LoyaltyTransaction(a1, "reversal", points, order))],
         obj |-> a1, ret |-> "None"]

(***************************************************************************)
(* Order aggregate: Order (orders/models.py).                              *)
(***************************************************************************)
\* A DecimalField of two decimal places stores its value rounded half-even.
\* n is the value in ten-thousandths, the result is in hundredths.
quantize(n) ==
    LET q == n \div 100
        r == n % 100
    IN  IF r > 50 \/ (r = 50 /\ q % 2 = 1) THEN q + 1 ELSE q

FreeShippingThreshold == 10000      \* Decimal('100.00')
FlatShippingFee == 1000             \* Decimal('10.00')
TaxPercent == 8                     \* Decimal('0.08')
PointValue == 100                   \* 1 point = 1.00 of discount

\* OrderCreateSerializer.calculate_shipping_fee; subtotal in hundredths.
calculate_shipping_fee(subtotal) ==
    IF subtotal >= FreeShippingThreshold THEN 0 ELSE FlatShippingFee

\* OrderCreateSerializer.calculate_tax; the result is in ten-thousandths.
calculate_tax(subtotal) == subtotal * TaxPercent

\* OrderCreateSerializer.create l.94-99, as the columns store the amounts.
calculate_totals(subtotal, use_loyalty_points) ==
    LET shipping_fee == calculate_shipping_fee(subtotal)
        tax_amount == calculate_tax(subtotal)
        loyalty_discount == use_loyalty_points * PointValue
    IN  [shipping_fee |-> shipping_fee,
         tax_amount |-> quantize(tax_amount),
         loyalty_discount |-> loyalty_discount,
         total_amount |-> quantize(100 * (subtotal + shipping_fee - loyalty_discount)
                                   + tax_amount)]

\* OrderItem.objects.create(...); OrderItem.save() computes line_total.
NewOrderItem(order, product, product_price, quantity) ==
    [order |-> order, product |-> product, product_price |-> product_price,
     quantity |-> quantity, line_total |-> product_price * quantity]

\* Order.objects.create(...) of checkout; save() generates the payment
\* reference, one per order.  paid_amount -1 stands for None.
NewOrder(id, user, subtotal, used) ==
    [id |-> id, payment_reference |-> "", paystack_reference |-> "",
     paystack_access_code |-> "", user |-> user, subtotal |-> subtotal,
     shipping_fee |-> calculate_totals(subtotal, used).shipping_fee,
     tax_amount |-> calculate_totals(subtotal, used).tax_amount,
     total_amount |-> calculate_totals(subtotal, used).total_amount,
     loyalty_points_used |-> used, payment_status |-> "pending",
     status |-> "pending", payment_method |-> "", paid_amount |-> -1,
     payment_date |-> "None", loyalty_points_earned |-> 0,
     loyalty_points_awarded |-> FALSE,
     confirmed_at |-> 0, shipped_at |-> 0, delivered_at |-> 0]

\* f"ref-{uuid.uuid4().hex}": the uuid drawn for order id is written as id.
generate_payment_reference(id) == id

\* Order.save(): an instance without payment_reference gets one; every
\* column of the instance is written.
save_order(w, o) ==
    LET o1 == IF o.payment_reference = ""
              THEN [o EXCEPT !.payment_reference = generate_payment_reference(o.id)]
              ELSE o
    IN  [w EXCEPT !.orders[o.id] = o1]

\* Order.save(update_fields=fields).
save_order_fields(w, o, fields) ==
    [w EXCEPT !.orders[o.id] =
        [f \in DOMAIN @ |-> IF f \in fields THEN o[f] ELSE @[f]]]

\* 5% of the subtotal, truncated; subtotal is in hundredths.
calculate_loyalty_points(o) ==
    IF o.user # NoUser THEN (o.subtotal * 5) \div 10000 ELSE 0

\* LoyaltyAccount.objects.get_or_create(user=user)
get_or_create_account(w, user) ==
    IF w.accounts[user] = NoRow
    THEN [w |-> save_account(w, NewAccount(user)), obj |-> NewAccount(user)]
    ELSE [w |-> w, obj |-> w.accounts[user]]

\* A condition that does not look at loyalty_points_awarded.
award_guard_ignores_awarded(o) ==
    o.user # NoUser /\ o.payment_status = "success"

\* The condition of award_loyalty_points, read from the instance o.
award_guard(o) ==
    o.user # NoUser /\ ~o.loyalty_points_awarded /\ o.payment_status = "success"

\* The body of award_loyalty_points once the account instance a is loaded.
award_commit(w, o, a) ==
    LET points_to_award == calculate_loyalty_points(o)
    IN  IF points_to_award > 0
        THEN LET r == add_points(w, a, points_to_award, o.id)
                 o1 == [o EXCEPT !.loyalty_points_earned = points_to_award,
                                 !.loyalty_points_awarded = TRUE]
             IN  [w |-> save_order_fields(r.w, o1,
                            {"loyalty_points_earned", "loyalty_points_awarded"}),
                  obj |-> o1]
        ELSE [w |-> w, obj |-> o]

award_loyalty_points(w, o) ==
    IF award_guard(o)
    THEN LET g == get_or_create_account(w, o.user)
         IN  award_commit(g.w, o, g.obj)
    ELSE [w |-> w, obj |-> o]

\* <task>.delay(str(order.id))
enqueue(w, task, id) == [w EXCEPT !.queue = Append(@, [task |-> task, order |-> id])]

handle_successful_payment_no_guard(w, o, transaction_data) ==
    LET o1 == [o EXCEPT !.payment_status = "success", !.status = "paid",
                        !.payment_method = transaction_data.channel,
                        !.paid_amount = transaction_data.amount,
                        !.payment_date = "set"]
        w1 == save_order_fields(w, o1,
                 {"payment_status", "status", "payment_method",
                  "paid_amount", "payment_date"})
        r == award_loyalty_points(w1, o1)
    IN  [w |-> enqueue(r.w, "send_payment_confirmation_email", o.id),
         obj |-> r.obj]

\* paid_amount = amount / 100: the amount in kobo read as naira with two
\* decimals, the same number of hundredths.
handle_successful_payment(w, o, transaction_data) ==
    IF o.payment_status = "success"
    THEN [w |-> w, obj |-> o]
    ELSE LET o1 == [o EXCEPT !.payment_status = "success", !.status = "paid",
                             !.payment_method = transaction_data.channel,
                             !.paid_amount = transaction_data.amount,
                             !.payment_date = "set"]
             w1 == save_order_fields(w, o1,
                      {"payment_status", "status", "payment_method",
                       "paid_amount", "payment_date"})
             r == award_loyalty_points(w1, o1)
         IN  [w |-> enqueue(r.w, "send_payment_confirmation_email", o.id),
              obj |-> r.obj]

\* loyalty_account.transactions.filter(order=o, transaction_type=type).exists()
transaction_exists(w, user, id, type) ==
    \E i \in 1..Len(w.ledger) :
        /\ w.ledger[i].account = user
        /\ w.ledger[i].order = id
        /\ w.ledger[i].transaction_type = type

handle_failed_payment_wrong_type(w, o) ==
    IF o.payment_status = "failed"
    THEN [w |-> w, obj |-> o]
    ELSE LET o1 == [o EXCEPT !.status = "failed", !.payment_status = "failed"]
             w1 == save_order_fields(w, o1, {"status", "payment_status"})
             w2 == IF o1.user # NoUser /\ o1.loyalty_points_used > 0
                   THEN IF w1.accounts[o1.user] = NoRow
                        THEN w1
                        ELSE IF ~transaction_exists(w1, o1.user, o1.id, "used")
                             THEN reverse_used_points(w1, w1.accounts[o1.user],
                                      o1.loyalty_points_used, o1.id).w
                             ELSE w1
                   ELSE w1
         IN  [w |-> enqueue(w2, "send_payment_failed_email", o.id), obj |-> o1]

handle_failed_payment(w, o) ==
    IF o.payment_status = "failed"
    THEN [w |-> w, obj |-> o]
    ELSE LET o1 == [o EXCEPT !.status = "failed", !.payment_status = "failed"]
             w1 == save_order_fields(w, o1, {"status", "payment_status"})
             w2 == IF o1.user # NoUser /\ o1.loyalty_points_used > 0
                   THEN IF w1.accounts[o1.user] = NoRow
                        THEN w1     \* LoyaltyAccount.DoesNotExist is logged
                        ELSE IF ~transaction_exists(w1, o1.user, o1.id, "reversal")
                             THEN reverse_used_points(w1, w1.accounts[o1.user],
                                      o1.loyalty_points_used, o1.id).w
                             ELSE w1
                   ELSE w1
         IN  [w |-> enqueue(w2, "send_payment_failed_email", o.id), obj |-> o1]

(***************************************************************************)
(* Webhook event store and payment transactions.                           *)
(***************************************************************************)
NoRef == "no-reference"     \* the payload carries no data.reference

OrdersByReference(w, reference) ==
    {id \in OrderIds : w.orders[id] # NoRow /\ w.orders[id].payment_reference = reference}

EventsById(w, event_id) ==
    {i \in 1..Len(w.events) : w.events[i] # NoRow /\ w.events[i].event_id = event_id}

NewPaystackEvent(w, event_data) ==
    [pk |-> Len(w.events) + 1, event_id |-> event_data.id,
     event_type |-> event_data.event, processed |-> FALSE,
     processing_attempts |-> 0, last_processing_error |-> "",
     order |-> NoOrder, processed_at |-> "None", event_data |-> event_data]

paystack_event_create(w, event_data) ==
    LET row == NewPaystackEvent(w, event_data)
    IN  [w |-> [w EXCEPT !.events = Append(@, row)], obj |-> row, created |-> TRUE]

\* PaystackEvent.objects.get_or_create(event_id=data.id, defaults=...)
paystack_event_get_or_create(w, event_data) ==
    IF EventsById(w, event_data.id) = {}
    THEN LET row == NewPaystackEvent(w, event_data)
         IN  [w |-> [w EXCEPT !.events = Append(@, row)], obj |-> row, created |-> TRUE]
    ELSE [w |-> w,
          obj |-> w.events[CHOOSE i \in EventsById(w, event_data.id) : TRUE],
          created |-> FALSE]

\* PaystackEvent.save(): every column of the instance ev is written.
save_event(w, ev) == [w EXCEPT !.events[ev.pk] = ev]

save_event_fields(w, ev, fields) ==
    [w EXCEPT !.events[ev.pk] =
        [f \in DOMAIN @ |-> IF f \in fields THEN ev[f] ELSE @[f]]]

increment_processing_attempts(w, ev, error) ==
    LET ev1 == [ev EXCEPT !.processing_attempts = @ + 1,
                          !.last_processing_error = IF error # "" THEN error ELSE @]
    IN  [w |-> save_event_fields(w, ev1,
                   {"processing_attempts", "last_processing_error"}),
         obj |-> ev1]

mark_as_processed(w, ev) ==
    LET ev1 == [ev EXCEPT !.processed = TRUE, !.processed_at = "set",
                          !.last_processing_error = ""]
    IN  [w |-> save_event_fields(w, ev1,
                   {"processed", "processed_at", "last_processing_error"}),
         obj |-> ev1]

TransactionsByReference(w, reference) ==
    {i \in 1..Len(w.ptx) : w.ptx[i].reference = reference}

\* PaymentTransaction.objects.get_or_create(reference=..., defaults=...) and the
\* update of a row that existed; status is 'success' or 'failed'.
upsert_payment_transaction(w, order, data, status) ==
    IF TransactionsByReference(w, data.reference) = {}
    THEN LET row == [pk |-> Len(w.ptx) + 1, order |-> order.id,
                     reference |-> data.reference, paystack_reference |-> data.id,
                     amount |-> data.amount, status |-> status,
                     paid_at |-> IF status = "success" THEN "set" ELSE "None",
                     channel |-> data.channel]
         IN  [w |-> [w EXCEPT !.ptx = Append(@, row)], obj |-> row]
    ELSE LET old == w.ptx[CHOOSE i \in TransactionsByReference(w, data.reference) : TRUE]
             row == [old EXCEPT !.status = status,
                                !.paid_at = IF status = "success" THEN "set" ELSE @]
         IN  [w |-> [w EXCEPT !.ptx[row.pk] = row], obj |-> row]

(***************************************************************************)
(* Handlers, one store access per step.  l holds the handler's locals: its *)
(* position pc, its input data, the model instances it loaded, the result  *)
(* of the gateway call, its return value, and what the run has done so far *)
(* (verified: verify_transaction was called; mutated: it saved the order). *)
(* fault names the store write that fails in this run ("none": no write    *)
(* fails; "mark": the save of mark_as_processed raises).                   *)
(* g is the gateway's status of each reference.                            *)
(***************************************************************************)
NoData == [none |-> TRUE]

Idle ==
    [kind |-> "idle", pc |-> "idle", data |-> NoData, ev |-> NoRow,
     order |-> NoRow, acct |-> NoRow, txn |-> NoRow, subtotal |-> 0,
     rows |-> << >>, result |-> "none",
     ret |-> "none", verified |-> FALSE, mutated |-> FALSE, conc |-> {},
     fault |-> "none"]

Start(kind, pc, data) == [Idle EXCEPT !.kind = kind, !.pc = pc, !.data = data]

\* A processor that dispatches the event whether or not its row is processed.
wh_get_or_create_reprocesses(w, g, l) ==
    LET r == paystack_event_get_or_create(w, l.data)
    IN  [w |-> r.w, l |-> [l EXCEPT !.ev = r.obj, !.pc = "wh_increment"]]

\* process_webhook_event, l.182-194
wh_get_or_create(w, g, l) ==
    LET r == paystack_event_get_or_create(w, l.data)
    IN  IF ~r.created /\ r.obj.processed
        THEN [w |-> r.w, l |-> [l EXCEPT !.ev = r.obj, !.ret = "True", !.pc = "done"]]
        ELSE [w |-> r.w, l |-> [l EXCEPT !.ev = r.obj, !.pc = "wh_increment"]]

\* process_webhook_event, l.196-205
wh_increment(w, g, l) ==
    LET r == increment_processing_attempts(w, l.ev, "")
        l1 == [l EXCEPT !.ev = r.obj]
    IN  IF l.data.event = "charge.success"
        THEN [w |-> r.w, l |-> [l1 EXCEPT !.pc = "sp_find"]]
        ELSE IF l.data.event \in {"charge.failed", "charge.abandoned"}
        THEN [w |-> r.w, l |-> [l1 EXCEPT !.pc = "fp_find"]]
        ELSE [w |-> r.w, l |-> [l1 EXCEPT !.ret = "True", !.pc = "wh_mark"]]

\* A handler that reports an event without an order as a failure.
find_order_or_fail(w, g, l, next) ==
    IF l.data.reference = NoRef \/ OrdersByReference(w, l.data.reference) = {}
    THEN [w |-> w, l |-> [l EXCEPT !.ret = "False", !.pc = "done"]]
    ELSE LET order == w.orders[CHOOSE id \in OrdersByReference(w, l.data.reference) : TRUE]
             ev1 == [l.ev EXCEPT !.order = order.id]
         IN  [w |-> save_event(w, ev1),
              l |-> [l EXCEPT !.order = order, !.ev = ev1, !.pc = next]]

\* _process_successful_payment l.223-230 and _process_failed_payment l.292-299
find_order(w, g, l, next) ==
    IF l.data.reference = NoRef
    THEN [w |-> w, l |-> [l EXCEPT !.ret = "False", !.pc = "done"]]
    ELSE IF OrdersByReference(w, l.data.reference) = {}
    THEN [w |-> w, l |-> [l EXCEPT !.ret = "True", !.pc = "wh_mark"]]
    ELSE LET order == w.orders[CHOOSE id \in OrdersByReference(w, l.data.reference) : TRUE]
             ev1 == [l.ev EXCEPT !.order = order.id]
         IN  [w |-> save_event(w, ev1),
              l |-> [l EXCEPT !.order = order, !.ev = ev1, !.pc = next]]

\* _process_successful_payment l.232-236; the gateway knows no transaction
\* for a reference of status "unknown" and verify_transaction raises.
sp_verify(w, g, l) ==
    LET l1 == [l EXCEPT !.result = g[l.data.reference], !.verified = TRUE]
    IN  IF l1.result # "success"
        THEN [w |-> w, l |-> [l1 EXCEPT !.ret = "False", !.pc = "done"]]
        ELSE [w |-> w, l |-> [l1 EXCEPT !.pc = "sp_upsert"]]

\* _process_successful_payment l.238-264
sp_upsert(w, g, l) ==
    LET r == upsert_payment_transaction(w, l.order, l.data, "success")
    IN  [w |-> r.w, l |-> [l EXCEPT !.txn = r.obj, !.pc = "sp_save_order"]]

\* _process_successful_payment l.266-272
sp_save_order(w, g, l) ==
    LET o1 == [l.order EXCEPT !.payment_status = "success", !.status = "paid",
                              !.payment_method = l.data.channel,
                              !.paid_amount = l.txn.amount,
                              !.payment_date = l.txn.paid_at]
    IN  [w |-> save_order(w, o1),
         l |-> [l EXCEPT !.order = o1, !.mutated = TRUE, !.pc = "award_load"]]

\* what follows order.award_loyalty_points() in the caller
after_award(l) ==
    IF l.kind = "webhook"
    THEN [l EXCEPT !.ret = "True", !.pc = "wh_mark"]
    ELSE [l EXCEPT !.ret = "200", !.pc = "done"]

\* award_loyalty_points l.167-168
award_load(w, g, l) ==
    IF award_guard(l.order)
    THEN LET r == get_or_create_account(w, l.order.user)
         IN  [w |-> r.w, l |-> [l EXCEPT !.acct = r.obj, !.pc = "award_commit"]]
    ELSE [w |-> w, l |-> after_award(l)]

\* award_loyalty_points l.169-175
award_save(w, g, l) ==
    LET r == award_commit(w, l.order, l.acct)
    IN  [w |-> r.w, l |-> after_award([l EXCEPT !.order = r.obj])]

\* _process_failed_payment l.301-319
fp_upsert(w, g, l) ==
    LET r == upsert_payment_transaction(w, l.order, l.data, "failed")
    IN  [w |-> r.w, l |-> [l EXCEPT !.txn = r.obj, !.pc = "fp_save_order"]]

\* _process_failed_payment l.321-327
fp_save_order(w, g, l) ==
    LET o1 == [l.order EXCEPT !.payment_status = "failed", !.status = "failed"]
    IN  [w |-> save_order(w, o1),
         l |-> [l EXCEPT !.order = o1, !.mutated = TRUE, !.ret = "True",
                         !.pc = "wh_mark"]]

\* process_webhook_event l.207-216.  When the save of mark_as_processed
\* raises, the instance keeps what the method assigned, the row is not
\* written, and the handler of l.212 records the error and returns False.
wh_mark(w, g, l) ==
    IF l.fault = "mark"
    THEN LET ev1 == [l.ev EXCEPT !.processed = TRUE, !.processed_at = "set",
                                 !.last_processing_error = ""]
             r == increment_processing_attempts(w, ev1, "error")
         IN  [w |-> r.w, l |-> [l EXCEPT !.ev = r.obj, !.ret = "False", !.pc = "done"]]
    ELSE LET r == mark_as_processed(w, l.ev)
         IN  [w |-> r.w, l |-> [l EXCEPT !.ev = r.obj, !.pc = "done"]]

\* A poll that takes an exception of the gateway call for a failed payment.
vp_verify_exception_fails(w, g, l) ==
    [w |-> w,
     l |-> [l EXCEPT !.result = IF g[l.data.reference] = "unknown" THEN "failed"
                                ELSE g[l.data.reference],
                     !.verified = TRUE, !.pc = "vp_find"]]

\* verify_payment l.63-64; an exception of the gateway call is answered 400.
vp_verify(w, g, l) ==
    LET l1 == [l EXCEPT !.result = g[l.data.reference], !.verified = TRUE]
    IN  IF l1.result = "unknown"
        THEN [w |-> w, l |-> [l1 EXCEPT !.ret = "400", !.pc = "done"]]
        ELSE [w |-> w, l |-> [l1 EXCEPT !.pc = "vp_find"]]

\* verify_payment l.67-71 and l.90-92: the order is loaded and the branch is
\* chosen from the loaded instance.
vp_find(w, g, l) ==
    IF OrdersByReference(w, l.data.reference) = {}
    THEN [w |-> w, l |-> [l EXCEPT !.ret = "400", !.pc = "done"]]
    ELSE LET order == w.orders[CHOOSE id \in OrdersByReference(w, l.data.reference) : TRUE]
             l1 == [l EXCEPT !.order = order]
         IN  IF l.result = "success"
             THEN IF order.payment_status # "success"
                  THEN [w |-> w, l |-> [l1 EXCEPT !.pc = "vp_save_success"]]
                  ELSE [w |-> w, l |-> [l1 EXCEPT !.ret = "200", !.pc = "done"]]
             ELSE IF order.payment_status = "pending"
                  THEN [w |-> w, l |-> [l1 EXCEPT !.pc = "vp_save_failed"]]
                  ELSE [w |-> w, l |-> [l1 EXCEPT !.ret = "400", !.pc = "done"]]

\* verify_payment l.72-74
vp_save_success(w, g, l) ==
    LET o1 == [l.order EXCEPT !.payment_status = "success", !.status = "paid"]
    IN  [w |-> save_order(w, o1),
         l |-> [l EXCEPT !.order = o1, !.mutated = TRUE, !.pc = "award_load"]]

\* verify_payment l.93-95
vp_save_failed(w, g, l) ==
    LET o1 == [l.order EXCEPT !.payment_status = "failed", !.status = "failed"]
    IN  [w |-> save_order(w, o1),
         l |-> [l EXCEPT !.order = o1, !.mutated = TRUE, !.ret = "400",
                         !.pc = "done"]]

\* OrderItemCreateSerializer: the fields of an item the serializer declares;
\* whatever else the client sent with the item is dropped.
OrderItemCreateSerializer(item) ==
    [product_id |-> item.product_id, quantity |-> item.quantity]

\* A subtotal that leaves the quantities out.
RECURSIVE calculated_subtotal_of_units(_, _)
calculated_subtotal_of_units(w, its) ==
    IF its = << >> THEN 0
    ELSE w.products[Head(its).product_id] + calculated_subtotal_of_units(w, Tail(its))

\* OrderCreateSerializer.validate: the subtotal from the stored prices.
RECURSIVE calculated_subtotal(_, _)
calculated_subtotal(w, its) ==
    IF its = << >> THEN 0
    ELSE w.products[Head(its).product_id] * Head(its).quantity
             + calculated_subtotal(w, Tail(its))

\* A validation that accepts every request.
validate_use_loyalty_points_accepts(w, user, value) == TRUE

\* OrderCreateSerializer.validate_use_loyalty_points
validate_use_loyalty_points(w, user, value) ==
    ~ \/ value > 0 /\ user = NoUser
      \/ value > 0 /\ user # NoUser /\ w.accounts[user] = NoRow
      \/ value > 0 /\ user # NoUser /\ w.accounts[user] # NoRow
            /\ value > w.accounts[user].current_balance

\* is_valid() of create_order: validate_use_loyalty_points and validate run
\* before create() and outside its transaction.
co_validate(w, g, l) ==
    LET its == [i \in 1..Len(l.data.items) |-> OrderItemCreateSerializer(l.data.items[i])]
    IN  IF ~validate_use_loyalty_points(w, l.data.user, l.data.use_loyalty_points)
        THEN [w |-> w, l |-> [l EXCEPT !.ret = "400", !.pc = "done"]]
        ELSE [w |-> w, l |-> [l EXCEPT !.subtotal = calculated_subtotal(w, its),
                                       !.pc = "co_create"]]

\* A block without transaction.atomic: what it wrote stays when it raises.
transaction_autocommit(w, w1, raised) == w1

\* transaction.atomic: what the block wrote (w1) is committed when the block
\* returns and discarded when it raises.
transaction_atomic(w, w1, raised) == IF raised THEN w ELSE w1

\* OrderCreateSerializer.create l.84-135: inside transaction.atomic the
\* order row and its item rows are inserted, the items at the prices stored
\* now; nothing is committed yet.  An insert of an item may raise.
co_create(w, g, l) ==
    LET order == NewOrder(l.data.id, l.data.user, l.subtotal,
                          l.data.use_loyalty_points)
        rows == [i \in 1..Len(l.data.items) |->
                    NewOrderItem(order.id, l.data.items[i].product_id,
                                 w.products[l.data.items[i].product_id],
                                 l.data.items[i].quantity)]
        l1 == [l EXCEPT !.order = order, !.rows = rows]
    IN  IF l.data.fail = "items"
        THEN [w |-> transaction_atomic(w, save_order(w, order), TRUE),
              l |-> [l1 EXCEPT !.ret = "400", !.pc = "done"]]
        ELSE IF l.data.user # NoUser /\ l.data.use_loyalty_points > 0
        THEN [w |-> w, l |-> [l1 EXCEPT !.pc = "co_load_account"]]
        ELSE [w |-> w, l |-> [l1 EXCEPT !.pc = "co_commit"]]

\* OrderCreateSerializer.create l.139: the account as last committed.
co_load_account(w, g, l) ==
    LET r == get_or_create_account(w, l.data.user)
    IN  [w |-> r.w, l |-> [l EXCEPT !.acct = r.obj, !.pc = "co_commit"]]

\* OrderCreateSerializer.create l.140-158: use_points on the loaded account,
\* its return value dropped, the insert of the shipping address, which may
\* raise, and the end of the transaction.  create_order answers 201, or 400
\* when create() raised.
co_commit(w, g, l) ==
    LET w1 == [save_order(w, l.order) EXCEPT !.items = @ \o l.rows]
        r == IF l.acct # NoRow
             THEN use_points(w1, l.acct, l.data.use_loyalty_points, l.order.id)
             ELSE [w |-> w1, obj |-> l.acct, ret |-> "none"]
        saves == l.data.user # NoUser /\ l.data.save_shipping_address
        w2 == IF saves
              THEN [r.w EXCEPT !.addresses = Append(@, [user |-> l.data.user])]
              ELSE r.w
        raised == saves /\ l.data.fail = "address"
    IN  [w |-> transaction_atomic(w, w2, raised),
         l |-> [l EXCEPT !.acct = r.obj, !.result = r.ret,
                         !.ret = IF raised THEN "400" ELSE "201", !.pc = "done"]]

\* refund_payment l.156-168: the order is loaded by its id; an order that
\* is missing (Http404, caught by the handler), not paid or already
\* refunded is answered 400.
\* A refund that does not look at the state of the order.
rf_find_any_state(w, g, l) ==
    IF w.orders[l.data.order_id] = NoRow
    THEN [w |-> w, l |-> [l EXCEPT !.ret = "400", !.pc = "done"]]
    ELSE [w |-> w, l |-> [l EXCEPT !.order = w.orders[l.data.order_id],
                                   !.pc = "rf_refund"]]

rf_find(w, g, l) ==
    IF w.orders[l.data.order_id] = NoRow
    THEN [w |-> w, l |-> [l EXCEPT !.ret = "400", !.pc = "done"]]
    ELSE LET order == w.orders[l.data.order_id]
             l1 == [l EXCEPT !.order = order]
         IN  IF order.payment_status # "success" \/ order.status = "refunded"
             THEN [w |-> w, l |-> [l1 EXCEPT !.ret = "400", !.pc = "done"]]
             ELSE [w |-> w, l |-> [l1 EXCEPT !.pc = "rf_refund"]]

\* refund_payment l.170-179 and l.196-201: refund_transaction; when the
\* gateway call raises the handler answers 400.
rf_refund(w, g, l) ==
    LET l1 == [l EXCEPT !.result = l.data.gateway]
    IN  IF l1.result = "raises"
        THEN [w |-> w, l |-> [l1 EXCEPT !.ret = "400", !.pc = "done"]]
        ELSE [w |-> w, l |-> [l1 EXCEPT !.pc = "rf_save_order"]]

\* refund_payment l.181-184
rf_save_order(w, g, l) ==
    LET o1 == [l.order EXCEPT !.status = "refunded", !.payment_status = "refunded"]
    IN  [w |-> save_order(w, o1),
         l |-> [l EXCEPT !.order = o1, !.mutated = TRUE, !.ret = "200",
                         !.pc = "done"]]

\* initialize_payment l.22-31
ip_find(w, g, l) ==
    IF w.orders[l.data.order_id] = NoRow
    THEN [w |-> w, l |-> [l EXCEPT !.ret = "400", !.pc = "done"]]
    ELSE LET order == w.orders[l.data.order_id]
             l1 == [l EXCEPT !.order = order]
         IN  IF order.payment_status # "pending"
             THEN [w |-> w, l |-> [l1 EXCEPT !.ret = "400", !.pc = "done"]]
             ELSE [w |-> w, l |-> [l1 EXCEPT !.pc = "ip_initialize"]]

\* An initialization that stores the access code as the payment reference.
ip_initialize_rekeys(w, g, l) ==
    LET l1 == [l EXCEPT !.result = l.data.gateway]
    IN  IF l1.result = "raises"
        THEN [w |-> w, l |-> [l1 EXCEPT !.ret = "400", !.pc = "done"]]
        ELSE LET o1 == [l.order EXCEPT !.payment_reference = "access-code",
                                       !.paystack_access_code = "access-code"]
             IN  [w |-> save_order_fields(w, o1,
                            {"payment_reference", "paystack_access_code"}),
                  l |-> [l1 EXCEPT !.order = o1, !.mutated = TRUE, !.ret = "200",
                                   !.pc = "done"]]

\* initialize_payment l.33-35 and l.51-56, initialize_transaction l.53-93:
\* the gateway answers with the reference it was sent and an access code,
\* or the call raises and the handler answers 400.
ip_initialize(w, g, l) ==
    LET l1 == [l EXCEPT !.result = l.data.gateway]
    IN  IF l1.result = "raises"
        THEN [w |-> w, l |-> [l1 EXCEPT !.ret = "400", !.pc = "done"]]
        ELSE LET o1 == [l.order EXCEPT !.paystack_reference = l.order.payment_reference,
                                       !.paystack_access_code = "access-code"]
             IN  [w |-> save_order_fields(w, o1,
                            {"paystack_reference", "paystack_access_code"}),
                  l |-> [l1 EXCEPT !.order = o1, !.mutated = TRUE, !.ret = "200",
                                   !.pc = "done"]]

\* Order.STATUS_CHOICES
STATUS_CHOICES ==
    {"pending", "paid", "confirmed", "processing", "shipped", "delivered",
     "cancelled", "refunded", "failed"}

\* update_order_status l.112-122
us_find(w, g, l) ==
    IF w.orders[l.data.order_id] = NoRow
    THEN [w |-> w, l |-> [l EXCEPT !.ret = "404", !.pc = "done"]]
    ELSE IF l.data.status \notin STATUS_CHOICES
    THEN [w |-> w, l |-> [l EXCEPT !.order = w.orders[l.data.order_id],
                                   !.ret = "400", !.pc = "done"]]
    ELSE [w |-> w, l |-> [l EXCEPT !.order = w.orders[l.data.order_id],
                                   !.pc = "us_save_order"]]

\* A stamp that is written whenever the status is reached.
stamp_every_time(o, new_status, now) ==
    IF new_status = "confirmed" THEN [o EXCEPT !.confirmed_at = now]
    ELSE IF new_status = "shipped" THEN [o EXCEPT !.shipped_at = now]
    ELSE IF new_status = "delivered" THEN [o EXCEPT !.delivered_at = now]
    ELSE o

\* update_order_status l.130-137 and OrderAdmin.save_model l.70-76: the
\* timestamp of the status reached is set to timezone.now() if it is unset
\* (0 stands for None; now is positive).
stamp(o, new_status, now) ==
    IF new_status = "confirmed" /\ o.confirmed_at = 0 THEN [o EXCEPT !.confirmed_at = now]
    ELSE IF new_status = "shipped" /\ o.shipped_at = 0 THEN [o EXCEPT !.shipped_at = now]
    ELSE IF new_status = "delivered" /\ o.delivered_at = 0
    THEN [o EXCEPT !.delivered_at = now]
    ELSE o

\* update_order_status l.124-139
us_save_order(w, g, l) ==
    LET o1 == stamp([l.order EXCEPT !.status = l.data.status], l.data.status, l.data.now)
    IN  [w |-> save_order(w, o1),
         l |-> [l EXCEPT !.order = o1, !.mutated = TRUE, !.ret = "200",
                         !.pc = "done"]]

\* The change view of OrderAdmin loads the order; a form that leaves the
\* status as it is changes nothing here.
am_find(w, g, l) ==
    IF w.orders[l.data.order_id] = NoRow
    THEN [w |-> w, l |-> [l EXCEPT !.ret = "404", !.pc = "done"]]
    ELSE [w |-> w, l |-> [l EXCEPT !.order = w.orders[l.data.order_id],
                                   !.pc = "am_save_model"]]

\* OrderAdmin.save_model l.67-77; the form changes the status only.
am_save_model(w, g, l) ==
    LET o1 == [l.order EXCEPT !.status = l.data.status]
        o2 == IF l.data.status # l.order.status
              THEN stamp(o1, l.data.status, l.data.now)
              ELSE o1
    IN  [w |-> save_order(w, o2),
         l |-> [l EXCEPT !.order = o2, !.mutated = TRUE, !.ret = "302", !.pc = "done"]]

\* One step of a handler.
Step(w, g, l) ==
    CASE l.pc = "wh_get_or_create" -> wh_get_or_create(w, g, l)
      [] l.pc = "wh_increment" -> wh_increment(w, g, l)
      [] l.pc = "sp_find" -> find_order(w, g, l, "sp_verify")
      [] l.pc = "sp_verify" -> sp_verify(w, g, l)
      [] l.pc = "sp_upsert" -> sp_upsert(w, g, l)
      [] l.pc = "sp_save_order" -> sp_save_order(w, g, l)
      [] l.pc = "award_load" -> award_load(w, g, l)
      [] l.pc = "award_commit" -> award_save(w, g, l)
      [] l.pc = "fp_find" -> find_order(w, g, l, "fp_upsert")
      [] l.pc = "fp_upsert" -> fp_upsert(w, g, l)
      [] l.pc = "fp_save_order" -> fp_save_order(w, g, l)
      [] l.pc = "wh_mark" -> wh_mark(w, g, l)
      [] l.pc = "vp_verify" -> vp_verify(w, g, l)
      [] l.pc = "vp_find" -> vp_find(w, g, l)
      [] l.pc = "vp_save_success" -> vp_save_success(w, g, l)
      [] l.pc = "vp_save_failed" -> vp_save_failed(w, g, l)
      [] l.pc = "co_validate" -> co_validate(w, g, l)
      [] l.pc = "co_create" -> co_create(w, g, l)
      [] l.pc = "co_load_account" -> co_load_account(w, g, l)
      [] l.pc = "co_commit" -> co_commit(w, g, l)
      [] l.pc = "rf_find" -> rf_find(w, g, l)
      [] l.pc = "rf_refund" -> rf_refund(w, g, l)
      [] l.pc = "rf_save_order" -> rf_save_order(w, g, l)
      [] l.pc = "ip_find" -> ip_find(w, g, l)
      [] l.pc = "ip_initialize" -> ip_initialize(w, g, l)
      [] l.pc = "am_find" -> am_find(w, g, l)
      [] l.pc = "am_save_model" -> am_save_model(w, g, l)
      [] l.pc = "us_find" -> us_find(w, g, l)
      [] l.pc = "us_save_order" -> us_save_order(w, g, l)

\* A handler run from its first step to its return, nothing interleaved.
\* The result of each step is bound as a value, so that ENABLED of an action
\* that runs a handler evaluates every step once.
RECURSIVE Run(_, _, _)
Run(w, g, l) ==
    IF l.pc = "done" THEN [w |-> w, l |-> l]
    ELSE CHOOSE out \in {Run(r.w, g, r.l) : r \in {Step(w, g, l)}} : TRUE

\* The handlers as called with their input.
process_webhook_event(w, g, event_data) ==
    Run(w, g, Start("webhook", "wh_get_or_create", event_data))

\* The same call in a run in which the store write named by fault fails.
process_webhook_event_with(w, g, event_data, fault) ==
    Run(w, g, [Start("webhook", "wh_get_or_create", event_data) EXCEPT !.fault = fault])

verify_payment(w, g, reference) ==
    Run(w, g, Start("verify", "vp_verify", [reference |-> reference]))

create_order(w, g, data) ==
    Run(w, g, Start("checkout", "co_validate", data))

refund_payment(w, g, data) ==
    Run(w, g, Start("refund", "rf_find", data))

save_model(w, g, data) ==
    Run(w, g, Start("admin", "am_find", data))

initialize_payment(w, g, data) ==
    Run(w, g, Start("initialize", "ip_find", data))

update_order_status(w, g, data) ==
    Run(w, g, Start("fulfillment", "us_find", data))

(***************************************************************************)
(* History of the sequential specifications: the last operation and its    *)
(* argument, the return value of its latest call, how many times in a row  *)
(* it has now been called with that argument (rep), the world before the   *)
(* first of these calls (pre), after the first (post) and before the       *)
(* latest (before).                                                        *)
(***************************************************************************)
NoHist ==
    [op |-> "none", arg |-> "", ret |-> "", rep |-> 0,
     pre |-> NoRow, post |-> NoRow, before |-> NoRow]

Record(op, arg, ret, w) ==
    hist' = IF hist.op = op /\ hist.arg = arg
            THEN [hist EXCEPT !.rep = @ + 1, !.ret = ret, !.before = World]
            ELSE [op |-> op, arg |-> arg, ret |-> ret, rep |-> 1,
                  pre |-> World, post |-> w, before |-> World]

(***************************************************************************)
(* SpecLedger: sequences of AddPoints / UsePoints / ReverseUsedPoints on   *)
(* the account of one customer.                                            *)
(***************************************************************************)
EmptyWorld ==
    /\ orders = [o \in OrderIds |-> NoRow]
    /\ items = << >>
    /\ products = [p \in Products |-> 0]
    /\ addresses = << >>
    /\ ledger = << >>
    /\ events = << >>
    /\ ptx = << >>
    /\ queue = << >>
    /\ tasks = EmptyBag
    /\ proc = << >>
    /\ hist = NoHist
    /\ steps = 0

InitLedger ==
    /\ EmptyWorld
    /\ accounts = [u \in Users |-> NewAccount(u)]
    /\ gw = [o \in OrderIds |-> "abandoned"]

LedgerCall(r, op, points) ==
    /\ steps < MaxLedgerOps
    /\ steps' = steps + 1
    /\ SetWorld(r.w)
    /\ Record(op, points, r.ret, r.w)
    /\ UNCHANGED <<gw, proc, tasks>>

AddPoints ==
    \E u \in Users, points \in 0..MaxPoints :
        LedgerCall(add_points(World, accounts[u], points, NoOrder), "add_points", points)

UsePoints ==
    \E u \in Users, points \in 0..MaxPoints :
        LedgerCall(use_points(World, accounts[u], points, NoOrder), "use_points", points)

ReverseUsedPoints ==
    \E u \in Users, points \in 0..MaxPoints :
        LedgerCall(reverse_used_points(World, accounts[u], points, NoOrder),
                   "reverse_used_points", points)

NextLedger == AddPoints \/ UsePoints \/ ReverseUsedPoints

SpecLedger == InitLedger /\ [][NextLedger]_vars

\* C8: after every sequence of add_points, use_points and reverse_used_points
\* the stored account satisfies current_balance = total_points_earned -
\* total_points_used and current_balance >= 0.
C8_BalanceInvariant ==
    \A u \in Users :
        accounts[u] # NoRow =>
            /\ accounts[u].current_balance =
                   accounts[u].total_points_earned - accounts[u].total_points_used
            /\ accounts[u].current_balance >= 0

\* All three operations have acted, a reversal last, and points are left.
C8_Witness ==
    /\ hist.op = "reverse_used_points" /\ hist.arg > 0
    /\ \E i \in 1..Len(ledger) : ledger[i].transaction_type = "used" /\ ledger[i].points > 0
    /\ \E i \in 1..Len(ledger) : ledger[i].transaction_type = "earned" /\ ledger[i].points > 0
    /\ accounts["u1"].current_balance > 0

\* C9: use_points with more points than the balance returns False and leaves
\* the account and the ledger as they were; use_points never makes the
\* balance negative.
C9_UsePointsGuard ==
    hist.op = "use_points" =>
        /\ \A u \in Users : accounts[u].current_balance >= 0
        /\ \A u \in Users :
              hist.arg > hist.before.accounts[u].current_balance =>
                  /\ hist.ret = "False"
                  /\ accounts = hist.before.accounts
                  /\ ledger = hist.before.ledger

\* use_points was called with more points than the (positive) balance.
C9_Witness ==
    /\ hist.op = "use_points"
    /\ hist.before.accounts["u1"].current_balance > 0
    /\ hist.arg > hist.before.accounts["u1"].current_balance
    /\ hist.ret = "False"

(***************************************************************************)
(* Inputs of the handlers.                                                 *)
(***************************************************************************)
GatewayStatuses == {"success", "failed", "ongoing", "unknown"}
EventIds == {"e1", "e2"}
EventTypes == {"charge.success", "charge.failed", "charge.abandoned", "transfer.success"}
Subtotals == {1000, 4000}   \* 10.00 earns no point, 40.00 earns two
Amount == 250000            \* data.amount of the gateway payloads, in kobo (an input)
Channel == "card"           \* data.channel of the gateway payloads

WebhookEvents ==
    [event : EventTypes, id : EventIds, reference : {"o1", NoRef},
     amount : {Amount}, channel : {Channel}]

TransactionData == [channel |-> Channel, amount |-> Amount]

\* The catalogue: one product at each of the subtotals.
Catalogue == [p \in Products |-> IF p = "p1" THEN 1000 ELSE 4000]

\* A checkout request for one unit of one product.
CheckoutData(ids) ==
    [id : ids, user : Users \cup {NoUser},
     items : {<<[product_id |-> p, quantity |-> 1, price |-> 0]>> : p \in Products},
     use_loyalty_points : {0, MaxPoints},
     save_shipping_address : {FALSE}, fail : {"none"}]

\* The store before any order: every customer has a loyalty account (the
\* post_save signal of orders/signals.py), holding b points earned earlier.
StoreWithPoints(b) ==
    LET w0 == [orders |-> [o \in OrderIds |-> NoRow],
               items |-> << >>, products |-> Catalogue, addresses |-> << >>,
               accounts |-> [u \in Users |-> NewAccount(u)],
               ledger |-> << >>, events |-> << >>, ptx |-> << >>, queue |-> << >>]
    IN  IF b > 0 THEN add_points(w0, w0.accounts["u1"], b, NoOrder).w ELSE w0

InitStore(w) ==
    /\ orders = w.orders
    /\ items = w.items
    /\ products = w.products
    /\ addresses = w.addresses
    /\ accounts = w.accounts
    /\ ledger = w.ledger
    /\ events = w.events
    /\ ptx = w.ptx
    /\ queue = w.queue
    /\ tasks = EmptyBag

(***************************************************************************)
(* SpecSeq: the handlers called one after the other, each run to its       *)
(* return.  Order "o1" is created by checkout; until then no order has     *)
(* the payment reference "o1".                                             *)
(***************************************************************************)
InitSeq ==
    /\ \E b \in {0, MaxPoints} : InitStore(StoreWithPoints(b))
    /\ \E s \in GatewayStatuses : gw = [o \in OrderIds |-> IF o = "o1" THEN s ELSE "unknown"]
    /\ proc = << >>
    /\ hist = NoHist
    /\ steps = 0

SeqCall(w, op, arg, ret) ==
    /\ steps < MaxSeqOps
    /\ steps' = steps + 1
    /\ SetWorld(w)
    /\ Record(op, arg, ret, w)
    /\ UNCHANGED <<gw, proc, tasks>>

CreateOrder ==
    \E data \in CheckoutData({"o1"}) :
        /\ orders[data.id] = NoRow
        /\ LET r == create_order(World, gw, data)
           IN  SeqCall(r.w, "create_order", data, r.l.ret)

HandleSuccessfulPayment ==
    \E id \in OrderIds :
        /\ orders[id] # NoRow
        /\ SeqCall(handle_successful_payment(World, orders[id], TransactionData).w,
                   "handle_successful_payment", id, "None")

HandleFailedPayment ==
    \E id \in OrderIds :
        /\ orders[id] # NoRow
        /\ SeqCall(handle_failed_payment(World, orders[id]).w,
                   "handle_failed_payment", id, "None")

ProcessWebhookEvent ==
    \E event_data \in WebhookEvents :
        /\ steps < MaxSeqOps
        /\ LET r == process_webhook_event(World, gw, event_data)
           IN  SeqCall(r.w, "process_webhook_event", event_data, r.l.ret)

VerifyPayment ==
    \E reference \in {"o1"} :
        /\ steps < MaxSeqOps
        /\ LET r == verify_payment(World, gw, reference)
           IN  SeqCall(r.w, "verify_payment", reference, r.l.ret)

\* The refund is accepted by the gateway or the gateway call raises.
RefundPayment ==
    \E data \in [order_id : {"o1"}, gateway : {"refunded", "raises"}] :
        /\ steps < MaxSeqOps
        /\ LET r == refund_payment(World, gw, data)
           IN  SeqCall(r.w, "refund_payment", data, r.l.ret)

UpdateOrderStatus ==
    \E data \in [order_id : {"o1"}, status : {"shipped", "lost"}, now : {steps + 1}] :
        /\ steps < MaxSeqOps
        /\ LET r == update_order_status(World, gw, data)
           IN  SeqCall(r.w, "update_order_status", data, r.l.ret)

NextSeq ==
    \/ RefundPayment
    \/ UpdateOrderStatus
    \/ CreateOrder
    \/ HandleSuccessfulPayment
    \/ HandleFailedPayment
    \/ ProcessWebhookEvent
    \/ VerifyPayment

SpecSeq == InitSeq /\ [][NextSeq]_vars

\* Ledger rows of one type for one order, and queued tasks for one order.
LedgerCount(w, id, type) ==
    Cardinality({i \in 1..Len(w.ledger) :
        w.ledger[i].order = id /\ w.ledger[i].transaction_type = type})

QueueCount(w, id, task) ==
    Cardinality({i \in 1..Len(w.queue) :
        w.queue[i].order = id /\ w.queue[i].task = task})

C6_Applies(w, id) ==
    /\ w.orders[id].payment_status # "success"
    /\ w.orders[id].user # NoUser
    /\ ~w.orders[id].loyalty_points_awarded
    /\ calculate_loyalty_points(w.orders[id]) > 0

\* C6: handle_successful_payment called twice in a row on an unpaid order of
\* a customer whose subtotal earns points produces exactly one 'earned'
\* ledger row and exactly one confirmation e-mail task, and the second call
\* changes nothing at all.
C6_SuccessTwice ==
    hist.op = "handle_successful_payment" =>
        /\ hist.rep >= 2 => World = hist.post
        /\ C6_Applies(hist.pre, hist.arg) =>
              /\ LedgerCount(World, hist.arg, "earned")
                    = LedgerCount(hist.pre, hist.arg, "earned") + 1
              /\ QueueCount(World, hist.arg, "send_payment_confirmation_email")
                    = QueueCount(hist.pre, hist.arg, "send_payment_confirmation_email") + 1

\* handle_successful_payment ran twice in a row on such an order.
C6_Witness ==
    /\ hist.op = "handle_successful_payment" /\ hist.rep = 2
    /\ C6_Applies(hist.pre, hist.arg)
    /\ LedgerCount(World, hist.arg, "earned") = 1
    /\ QueueCount(World, hist.arg, "send_payment_confirmation_email") = 1

\* The order, as stored before the first call, is a not yet failed order of a
\* customer that used points, none of them reversed so far.
C7_Applies(w, id) ==
    /\ w.orders[id].payment_status # "failed"
    /\ w.orders[id].user # NoUser
    /\ w.orders[id].loyalty_points_used > 0
    /\ LedgerCount(w, id, "reversal") = 0

\* C7: handle_failed_payment called twice in a row on a not yet failed order
\* that used n > 0 points produces exactly one 'reversal' ledger row and
\* credits the n points back once; the second call changes nothing.
C7_FailureTwice ==
    hist.op = "handle_failed_payment" =>
        /\ hist.rep >= 2 => World = hist.post
        /\ C7_Applies(hist.pre, hist.arg) =>
              LET o == hist.pre.orders[hist.arg]
              IN  /\ LedgerCount(World, hist.arg, "reversal") = 1
                  /\ accounts[o.user].current_balance =
                        hist.pre.accounts[o.user].current_balance + o.loyalty_points_used
                  /\ accounts[o.user].total_points_used =
                        hist.pre.accounts[o.user].total_points_used - o.loyalty_points_used

\* handle_failed_payment ran twice in a row on such an order.
C7_Witness ==
    /\ hist.op = "handle_failed_payment" /\ hist.rep = 2
    /\ C7_Applies(hist.pre, hist.arg)
    /\ LedgerCount(World, hist.arg, "reversal") = 1
    /\ LedgerCount(World, hist.arg, "used") = 1

(***************************************************************************)
(* Spec: two workers / request handlers run concurrently on the store      *)
(* after the checkout of order "o1".  Each is a webhook processor (the     *)
(* Celery task process_webhook_event_async) or a verify_payment request,   *)
(* and takes one store access per step.                                    *)
(***************************************************************************)
Procs == {"p1", "p2"}

Active(p) == proc[p].pc \notin {"idle", "done"}

Init ==
    /\ \E b \in {0, MaxPoints}, data \in CheckoutData({"o1"}) :
          LET r == create_order(StoreWithPoints(b), [o \in OrderIds |-> "unknown"], data)
          IN  r.l.ret = "201" /\ InitStore(r.w)
    /\ \E s \in GatewayStatuses : gw = [o \in OrderIds |-> IF o = "o1" THEN s ELSE "unknown"]
    /\ proc = [p \in Procs |-> Idle]
    /\ hist = NoHist
    /\ steps = 0

\* A handler starts; conc remembers the handlers that are running then.
Begin(p, l) ==
    /\ proc[p].pc = "idle"
    /\ proc' = [proc EXCEPT ![p] = [l EXCEPT !.conc = {q \in Procs : Active(q)}]]
    /\ UNCHANGED <<orders, items, products, addresses, accounts, ledger, events, ptx,
                   queue, tasks, gw, hist, steps>>

\* The gateway delivers an event about the payment of order "o1".
StartWebhook ==
    \E p \in Procs, event_data \in WebhookEvents :
        /\ event_data.reference = "o1"
        /\ Begin(p, Start("webhook", "wh_get_or_create", event_data))

\* The client polls GET verify/<reference> for order "o1".
StartVerify ==
    \E p \in Procs, reference \in {"o1"} :
        /\ proc[p].kind = "idle"
        /\ Begin(p, Start("verify", "vp_verify", [reference |-> reference]))

ProcStep ==
    \E p \in Procs :
        /\ Active(p)
        /\ LET r == Step(World, gw, proc[p])
           IN  /\ SetWorld(r.w)
               /\ proc' = [proc EXCEPT ![p] = r.l]
        /\ UNCHANGED <<gw, hist, steps, tasks>>

Next == StartWebhook \/ StartVerify \/ ProcStep

Spec == Init /\ [][Next]_vars

\* Two runs overlapped: one started while the other was running.
Overlap(p, q) == q \in proc[p].conc \/ p \in proc[q].conc

\* C1: whatever the interleaving of two handlers that both handle the
\* success of one order, the order has at most one 'earned' ledger row.
C1_AwardAtMostOnce ==
    \A id \in OrderIds : LedgerCount(World, id, "earned") <= 1

InitCheckout ==
    /\ \E b \in 0..MaxPoints : InitStore(StoreWithPoints(b))
    /\ gw = [o \in OrderIds |-> "unknown"]
    /\ proc = [p \in Procs |-> Idle]
    /\ hist = NoHist
    /\ steps = 0

\* The order id (a fresh uuid) is one no order and no running request has.
StartCheckout ==
    \E p \in Procs, data \in CheckoutData(OrderIds) :
        /\ orders[data.id] = NoRow
        /\ \A q \in Procs : proc[q].kind = "checkout" => proc[q].data.id # data.id
        /\ Begin(p, Start("checkout", "co_validate", data))

NextCheckout == StartCheckout \/ ProcStep

SpecCheckout == InitCheckout /\ [][NextCheckout]_vars

\* C10: every stored order with loyalty_points_used = n > 0 has a 'used'
\* ledger row of n points for that order.
C10_DiscountBacked ==
    \A id \in OrderIds :
        (orders[id] # NoRow /\ orders[id].loyalty_points_used > 0) =>
            \E i \in 1..Len(ledger) :
                /\ ledger[i].order = id
                /\ ledger[i].transaction_type = "used"
                /\ ledger[i].points = orders[id].loyalty_points_used

(***************************************************************************)
(* SpecShop: the catalogue and checkout, one request after the other.      *)
(* Prices change through product_detail (products/views.py); checkout      *)
(* requests name one or two items, may ask for points, may ask to save the *)
(* shipping address, and an insert of the request may raise.               *)
(***************************************************************************)
MaxBalance == 12        \* largest loyalty balance and largest points request
MaxShopOps == 2         \* requests in one run of SpecShop

PriceChoices == {110, 100000}       \* 1.10 and 1000.00
ClientPrice == 1                    \* a price the client sends with an item

Quantities == {1, 2}

ShopItem == [product_id : Products, quantity : Quantities, price : {ClientPrice}]

\* One item, or two items of different products.
ShopItems ==
    {<<i>> : i \in ShopItem}
        \cup {<<i, j>> : i \in {x \in ShopItem : x.product_id = "p1"},
                         j \in {x \in ShopItem : x.product_id = "p2"}}

ShopCheckoutData(ids) ==
    {d \in [id : ids, user : Users \cup {NoUser}, items : ShopItems,
            use_loyalty_points : {0, 1, MaxBalance},
            save_shipping_address : BOOLEAN,
            fail : {"none", "items", "address"}] :
        /\ d.fail = "address" => d.save_shipping_address
        /\ d.fail = "items" => ~d.save_shipping_address}

InitShop ==
    /\ \E b \in {0, 1, MaxBalance} : InitStore(StoreWithPoints(b))
    /\ gw = [o \in OrderIds |-> "unknown"]
    /\ proc = << >>
    /\ hist = NoHist
    /\ steps = 0

ShopCall(w, op, arg, ret) ==
    /\ steps < MaxShopOps
    /\ steps' = steps + 1
    /\ SetWorld(w)
    /\ Record(op, arg, ret, w)
    /\ UNCHANGED <<gw, proc, tasks>>

\* product_detail, PUT: the price of a product is replaced.
product_detail_put(w, product_id, price) ==
    [w EXCEPT !.products[product_id] = price]

UpdatePrice ==
    \E p \in Products, price \in PriceChoices :
        /\ products[p] # price
        /\ ShopCall(product_detail_put(World, p, price), "product_detail",
                    [product_id |-> p, price |-> price], "200")

ShopCreateOrder ==
    \E data \in ShopCheckoutData({"o1"}) :
        /\ orders[data.id] = NoRow
        /\ LET r == create_order(World, gw, data)
           IN  ShopCall(r.w, "create_order", data, r.l.ret)

NextShop == UpdatePrice \/ ShopCreateOrder

SpecShop == InitShop /\ [][NextShop]_vars

\* The item rows of an order, oldest first.
ItemsOf(w, id) == SelectSeq(w.items, LAMBDA row : row.order = id)

\* C11: a create_order request that fails (validation error, or an insert
\* that raises, also after the debit) leaves the orders, the items, the
\* accounts, the ledger and the addresses as they were; one that succeeds
\* has stored the order, one row per item and, when points were asked for,
\* the debit of exactly these points.
C11_AllOrNothing ==
    hist.op = "create_order" =>
        /\ hist.ret # "201" => World = hist.before
        /\ hist.ret = "201" =>
            /\ orders[hist.arg.id] # NoRow
            /\ Len(ItemsOf(World, hist.arg.id)) = Len(hist.arg.items)
            /\ (hist.arg.user # NoUser /\ hist.arg.use_loyalty_points > 0) =>
                /\ LedgerCount(World, hist.arg.id, "used") = 1
                /\ accounts[hist.arg.user].current_balance =
                       hist.before.accounts[hist.arg.user].current_balance
                           - hist.arg.use_loyalty_points

\* The insert of the shipping address raised after the debit of the points.
C11_Witness ==
    /\ hist.op = "create_order"
    /\ hist.arg.user = "u1"
    /\ hist.arg.use_loyalty_points > 0
    /\ hist.arg.fail = "address"
    /\ hist.before.accounts["u1"].current_balance >= hist.arg.use_loyalty_points
    /\ hist.ret = "400"

\* C12: a create_order request with use_loyalty_points > 0 of a guest, or of
\* a customer whose balance is below the points asked for, is answered with
\* the validation error, creates no order and changes nothing.
C12_PointsValidation ==
    ( /\ hist.op = "create_order"
      /\ hist.arg.use_loyalty_points > 0
      /\ \/ hist.arg.user = NoUser
         \/ hist.arg.use_loyalty_points >
                hist.before.accounts[hist.arg.user].current_balance )
    => /\ hist.ret = "400"
       /\ orders[hist.arg.id] = NoRow
       /\ World = hist.before

\* A customer with a balance asked for more points than the balance.
C12_Witness ==
    /\ hist.op = "create_order"
    /\ hist.arg.user = "u1"
    /\ hist.before.accounts["u1"].current_balance > 0
    /\ hist.arg.use_loyalty_points > hist.before.accounts["u1"].current_balance
    /\ hist.arg.fail = "none"
    /\ hist.ret = "400"

\* C18: every stored order has total_amount = subtotal + shipping_fee +
\* tax_amount - loyalty discount, and none of the five amounts is negative.
C18_TotalsNonNegative ==
    \A id \in OrderIds :
        orders[id] # NoRow =>
            /\ orders[id].total_amount =
                   orders[id].subtotal + orders[id].shipping_fee
                       + orders[id].tax_amount
                       - orders[id].loyalty_points_used * PointValue
            /\ orders[id].subtotal >= 0
            /\ orders[id].shipping_fee >= 0
            /\ orders[id].tax_amount >= 0
            /\ orders[id].loyalty_points_used * PointValue >= 0
            /\ orders[id].total_amount >= 0

\* Sum of price * quantity over the items of a request at the prices given.
RECURSIVE SumLines(_, _)
SumLines(prices, its) ==
    IF its = << >> THEN 0
    ELSE prices[Head(its).product_id] * Head(its).quantity + SumLines(prices, Tail(its))

\* C19: the subtotal of a created order is the sum, over the items of the
\* request, of the price stored for the product when the request was made
\* times the quantity; each item row holds that price and its line total;
\* the price sent by the client appears nowhere.
C19_SubtotalFromStoredPrices ==
    (hist.op = "create_order" /\ hist.ret = "201") =>
        LET rows == ItemsOf(World, hist.arg.id)
        IN  /\ orders[hist.arg.id].subtotal =
                   SumLines(hist.before.products, hist.arg.items)
            /\ Len(rows) = Len(hist.arg.items)
            /\ \A i \in 1..Len(rows) :
                /\ rows[i].product = hist.arg.items[i].product_id
                /\ rows[i].product_price =
                       hist.before.products[hist.arg.items[i].product_id]
                /\ rows[i].line_total =
                       rows[i].product_price * hist.arg.items[i].quantity

\* An order of two items, one of them of quantity two, was created after a
\* price had changed; the client's price differs from the stored ones.
C19_Witness ==
    /\ hist.op = "create_order"
    /\ hist.ret = "201"
    /\ Len(hist.arg.items) = 2
    /\ hist.arg.items[1].quantity = 2
    /\ hist.arg.items[1].product_id # hist.arg.items[2].product_id
    /\ hist.before.products # Catalogue
    /\ orders[hist.arg.id].subtotal > 0

\* C20: a created order has the flat shipping fee when its subtotal is below
\* the free-shipping threshold and no shipping fee otherwise, and an order
\* of subtotal 1000.00 (100000) is charged the flat fee.
C20_ShippingFee ==
    \A id \in OrderIds :
        orders[id] # NoRow =>
            /\ orders[id].shipping_fee =
                   IF orders[id].subtotal < FreeShippingThreshold
                   THEN FlatShippingFee ELSE 0
            /\ orders[id].subtotal = 100000 =>
                   orders[id].shipping_fee = FlatShippingFee

(***************************************************************************)
(* Further properties of SpecSeq (handlers one after the other) and of     *)
(* Spec (webhook processors and verify polls interleaved).                 *)
(***************************************************************************)
\* C13: a verify poll or a webhook processor has set an order's
\* payment_status to failed only if the gateway's own status of the
\* payment is failed.
C13_FailedOnlyIfGatewayFailed ==
    \A id \in OrderIds :
        (orders[id] # NoRow /\ orders[id].payment_status = "failed")
            => gw[orders[id].payment_reference] = "failed"

\* C14: a verify poll or a charge.success webhook whose verify_transaction
\* raises, and a refund whose refund_transaction raises, leave every order
\* as it was.
C14_GatewayExceptionKeepsOrder ==
    ( \/ hist.op = "verify_payment" /\ gw[hist.arg] = "unknown"
      \/ /\ hist.op = "process_webhook_event"
         /\ hist.arg.event = "charge.success"
         /\ hist.arg.reference # NoRef
         /\ gw[hist.arg.reference] = "unknown"
      \/ hist.op = "refund_payment" /\ hist.arg.gateway = "raises" )
    => orders = hist.before.orders

\* The gateway call of the refund of a paid order raised.
C14_Witness ==
    /\ hist.op = "refund_payment"
    /\ hist.arg.gateway = "raises"
    /\ hist.before.orders["o1"] # NoRow
    /\ hist.before.orders["o1"].payment_status = "success"
    /\ hist.before.orders["o1"].status # "refunded"
    /\ hist.ret = "400"

Awarded(id) == orders[id] # NoRow /\ orders[id].loyalty_points_awarded

\* C15: in every step loyalty_points_awarded of an order stays true once it
\* is true, and the order is credited ('earned' ledger row) only in the step
\* that sets the flag, once, with payment_status = success after the step.
C15_AwardedOnce ==
    [][\A id \in OrderIds :
        /\ Awarded(id) => Awarded(id)'
        /\ ( \/ ~Awarded(id) /\ Awarded(id)'
             \/ LedgerCount(World, id, "earned")' # LedgerCount(World, id, "earned") )
           => /\ ~Awarded(id)
              /\ Awarded(id)'
              /\ orders'[id].payment_status = "success"
              /\ LedgerCount(World, id, "earned")'
                     = LedgerCount(World, id, "earned") + 1]_vars

\* An order that was awarded its points has since been refunded.
C15_Witness ==
    /\ Awarded("o1")
    /\ LedgerCount(World, "o1", "earned") = 1
    /\ hist.op = "refund_payment"
    /\ hist.ret = "200"
    /\ orders["o1"].payment_status = "refunded"

\* Points of the ledger rows of one type of an account.
RECURSIVE LedgerPoints(_, _, _)
LedgerPoints(rows, user, type) ==
    IF rows = << >> THEN 0
    ELSE (IF Head(rows).account = user /\ Head(rows).transaction_type = type
          THEN Head(rows).points ELSE 0) + LedgerPoints(Tail(rows), user, type)

\* C16: the balance of every account is the sum of the points of its
\* 'earned' and 'reversal' ledger rows minus those of its 'used' rows.
C16_BalanceMatchesLedger ==
    \A u \in Users :
        accounts[u] # NoRow =>
            accounts[u].current_balance =
                LedgerPoints(ledger, u, "earned") + LedgerPoints(ledger, u, "reversal")
                    - LedgerPoints(ledger, u, "used")

\* The edges of payment_status; pending may pass through processing.
PaymentStatusEdge(a, b) ==
    \/ a = b
    \/ a \in {"pending", "processing"} /\ b \in {"processing", "success", "failed", "cancelled"}
    \/ a = "success" /\ b = "refunded"

\* The entry points of the application (the methods of Order that SpecSeq
\* also calls directly are left out).
RequestHandlers ==
    {"create_order", "process_webhook_event", "verify_payment", "refund_payment",
     "update_order_status"}

\* C17: every request handler changes the payment_status of an order along
\* an edge of the state machine, and from success to refunded only in
\* refund_payment.
C17_PaymentStatusEdges ==
    [][\A id \in OrderIds :
        (hist'.op \in RequestHandlers /\ orders[id] # NoRow /\ orders'[id] # NoRow) =>
            /\ PaymentStatusEdge(orders[id].payment_status, orders'[id].payment_status)
            /\ (orders[id].payment_status = "success"
                    /\ orders'[id].payment_status = "refunded")
               => hist'.op = "refund_payment"]_vars

(***************************************************************************)
(* The webhook processor, call by call (SpecSeq).                          *)
(***************************************************************************)
\* The row of the event store for an event id, NoRow if there is none.
EventRow(w, event_id) ==
    IF EventsById(w, event_id) = {} THEN NoRow
    ELSE w.events[CHOOSE i \in EventsById(w, event_id) : TRUE]

\* The latest call was process_webhook_event for an event that was not yet
\* processed: the call went through the dispatch.
Handled ==
    /\ hist.op = "process_webhook_event"
    /\ \/ EventRow(hist.before, hist.arg.id) = NoRow
       \/ ~EventRow(hist.before, hist.arg.id).processed

\* The payment transactions of one status recorded for an order.
PaymentTransactions(w, id, status) ==
    {i \in 1..Len(w.ptx) : w.ptx[i].order = id /\ w.ptx[i].status = status}

FinalState(w) ==
    [orders |-> [id \in OrderIds |->
                    IF w.orders[id] = NoRow THEN NoRow
                    ELSE [status |-> w.orders[id].status,
                          payment_status |-> w.orders[id].payment_status,
                          paid_amount |-> w.orders[id].paid_amount,
                          payment_method |-> w.orders[id].payment_method,
                          payment_date |-> w.orders[id].payment_date,
                          loyalty_points_awarded |-> w.orders[id].loyalty_points_awarded]],
     accounts |-> w.accounts,
     ledger |-> w.ledger,
     queue |-> w.queue]

WebhookThenPoll(w, event_data) ==
    verify_payment(process_webhook_event(w, gw, event_data).w, gw, event_data.reference).w

PollThenWebhook(w, event_data) ==
    process_webhook_event(verify_payment(w, gw, event_data.reference).w, gw, event_data).w

Returns(p) == proc[p].kind = "webhook" /\ proc[p].pc # "done" /\ proc'[p].pc = "done"

max_retries == 3
default_retry_delay == 60
MaxDeliveries == 1       \* deliveries of the gateway in one run of SpecTask

\* The store writes that may fail in the run of message m: a write fails
\* in the first run of a delivery only.
Faults(m) == IF m.retries = 0 THEN {"none", "mark"} ELSE {"none"}

\* The gateway's events about the payment of order "o1"; a second delivery
\* has the event id of the first.
TaskEvents ==
    {e \in WebhookEvents :
        /\ e.reference = "o1"
        /\ e.id = "e1"
        /\ e.event \in {"charge.success", "charge.failed"}}

Message(event_data, retries, delay) ==
    [event_data |-> event_data, retries |-> retries, countdown |-> delay]

\* A task that waits the default delay before every retry.
countdown_constant(retries) == default_retry_delay

\* countdown = 2 ** self.request.retries * 60
countdown(retries) == (2 ^ retries) * default_retry_delay

\* Task.retry of Celery, called in the run of message m on the pending
\* messages ts: past max_retries it raises MaxRetriesExceededError;
\* otherwise it sends the message of the next retry and raises Retry.
retry(ts, m, delay) ==
    IF m.retries + 1 > max_retries
    THEN [tasks |-> ts, raised |-> "MaxRetriesExceededError"]
    ELSE [tasks |-> ts (+) SetToBag({Message(m.event_data, m.retries + 1, delay)}),
          raised |-> "Retry"]

\* One run of the task for message m.  What self.retry raises in the try
\* block is an Exception and is caught by the except clause of the task.
process_webhook_event_async(w, ts, g, m, fault) ==
    LET r == process_webhook_event_with(w, g, m.event_data, fault)
    IN  IF r.l.ret = "True"
        THEN [w |-> r.w, tasks |-> ts, ret |-> "ok"]
        ELSE LET r1 == retry(ts, m, countdown(m.retries))
             IN  IF m.retries < max_retries
                 THEN LET r2 == retry(r1.tasks, m, countdown(m.retries))
                      IN  [w |-> r.w, tasks |-> r2.tasks, ret |-> r2.raised]
                 ELSE [w |-> enqueue(r.w, "send_webhook_failure_alert", m.event_data.id),
                       tasks |-> r1.tasks, ret |-> r1.raised]

\* cleanup_old_webhook_events: old holds the rows created more than 30
\* days ago.  A deleted row leaves NoRow at its primary key.
cleanup_old_webhook_events(w, old) ==
    [w EXCEPT !.events =
        [i \in 1..Len(@) |->
            IF i \in old /\ @[i] # NoRow /\ @[i].processed THEN NoRow ELSE @[i]]]

InitTask ==
    /\ \E data \in CheckoutData({"o1"}) :
          /\ data.user = "u1"
          /\ data.use_loyalty_points = 0
          /\ data.items[1].product_id = "p2"
          /\ InitStore(create_order(StoreWithPoints(0),
                                    [o \in OrderIds |-> "unknown"], data).w)
    /\ \E s \in GatewayStatuses : gw = [o \in OrderIds |-> IF o = "o1" THEN s ELSE "unknown"]
    /\ proc = << >>
    /\ hist = NoHist
    /\ steps = 0

\* PaystackWebhookView.post
Deliver ==
    \E event_data \in TaskEvents :
        /\ steps < MaxDeliveries
        /\ steps' = steps + 1
        /\ tasks' = tasks (+) SetToBag({Message(event_data, 0, 0)})
        /\ SetWorld(World)
        /\ Record("PaystackWebhookView.post", event_data, "200", World)
        /\ UNCHANGED <<gw, proc>>

RunTask ==
    \E m \in BagToSet(tasks) : \E fault \in Faults(m) :
        /\ CopiesIn(m, tasks) > 0
        /\ LET r == process_webhook_event_async(World, tasks (-) SetToBag({m}), gw, m, fault)
           IN  /\ SetWorld(r.w)
               /\ tasks' = r.tasks
               /\ Record("process_webhook_event_async",
                         [message |-> m, fault |-> fault], r.ret, r.w)
        /\ UNCHANGED <<gw, proc, steps>>

CleanupOldWebhookEvents ==
    \E old \in SUBSET (1..Len(events)) :
        /\ cleanup_old_webhook_events(World, old) # World
        /\ SetWorld(cleanup_old_webhook_events(World, old))
        /\ Record("cleanup_old_webhook_events", old, "deleted", World)
        /\ UNCHANGED <<gw, proc, steps, tasks>>

NextTask == Deliver \/ RunTask \/ CleanupOldWebhookEvents

SpecTask == InitTask /\ [][NextTask]_vars

\* The messages sent in this step.
Scheduled == {n \in BagToSet(tasks') : CopiesIn(n, tasks') > CopiesIn(n, tasks)}

Alerts(q, event_id) ==
    Cardinality({i \in 1..Len(q) :
        q[i].task = "send_webhook_failure_alert" /\ q[i].order = event_id})

Attempts(w, event_id) ==
    IF EventRow(w, event_id) = NoRow THEN 0
    ELSE EventRow(w, event_id).processing_attempts

PlaceOrder ==
    \E data \in CheckoutData(OrderIds) :
        /\ orders[data.id] = NoRow
        /\ data.id = IF orders["o1"] = NoRow THEN "o1" ELSE "o2"
        /\ LET r == create_order(World, gw, data)
           IN  SeqCall(r.w, "create_order", data, r.l.ret)

InitializePayment ==
    \E data \in [order_id : OrderIds, gateway : {"initialized", "raises"}] :
        /\ steps < MaxSeqOps
        /\ LET r == initialize_payment(World, gw, data)
           IN  SeqCall(r.w, "initialize_payment", data, r.l.ret)

\* The processor handles an event about the payment of order "o1".
ProcessPaymentEvent ==
    \E event_data \in TaskEvents :
        /\ steps < MaxSeqOps
        /\ LET r == process_webhook_event(World, gw, event_data)
           IN  SeqCall(r.w, "process_webhook_event", event_data, r.l.ret)

NextRef ==
    \/ PlaceOrder
    \/ InitializePayment
    \/ ProcessPaymentEvent
    \/ VerifyPayment
    \/ RefundPayment
    \/ UpdateOrderStatus

SpecRef == InitSeq /\ [][NextRef]_vars

\* C21: in every step an order that is saved for the first time gets a
\* payment_reference, an order that exists keeps the payment_reference it
\* has (through initialization, verification, webhook processing, refund
\* and fulfilment update), and no two orders have the same
\* payment_reference.
C21_PaymentReferenceIsFixed ==
    [][/\ \A id \in OrderIds :
            /\ (orders[id] = NoRow /\ orders'[id] # NoRow)
                   => orders'[id].payment_reference # ""
            /\ orders[id] # NoRow
                   => /\ orders'[id] # NoRow
                      /\ orders'[id].payment_reference = orders[id].payment_reference
       /\ \A a, b \in OrderIds :
            (a # b /\ orders'[a] # NoRow /\ orders'[b] # NoRow)
                => orders'[a].payment_reference # orders'[b].payment_reference]_vars

\* Two orders exist and the payment of one was initialized with the
\* gateway: the gateway's reference is stored next to the payment
\* reference the order has had since it was placed.
C21_Witness ==
    /\ orders["o1"] # NoRow
    /\ orders["o2"] # NoRow
    /\ hist.op = "initialize_payment"
    /\ hist.ret = "200"
    /\ orders[hist.arg.order_id].paystack_access_code # ""
    /\ orders[hist.arg.order_id].paystack_reference
           = hist.before.orders[hist.arg.order_id].payment_reference
    /\ orders["o1"].payment_reference # orders["o2"].payment_reference

(***************************************************************************)
(* SpecTier: the ledger operations of SpecLedger with point amounts that   *)
(* take total_points_earned to, just below and across the tier thresholds. *)
(***************************************************************************)
TierPoints == {1, 999, 4000, 5000}

AddTierPoints ==
    \E u \in Users, points \in TierPoints :
        LedgerCall(add_points(World, accounts[u], points, NoOrder), "add_points", points)

UseTierPoints ==
    \E u \in Users, points \in {1, 5000} :
        LedgerCall(use_points(World, accounts[u], points, NoOrder), "use_points", points)

ReverseTierPoints ==
    \E u \in Users, points \in {1, 5000} :
        LedgerCall(reverse_used_points(World, accounts[u], points, NoOrder),
                   "reverse_used_points", points)

NextTier == AddTierPoints \/ UseTierPoints \/ ReverseTierPoints

SpecTier == InitLedger /\ [][NextTier]_vars

\* The tier of the specification for a total of points earned.
TierOf(earned) ==
    IF earned >= 10000 THEN "Platinum"
    ELSE IF earned >= 5000 THEN "Gold"
    ELSE IF earned >= 1000 THEN "Silver"
    ELSE "Bronze"

\* C33: after every sequence of add_points, use_points and
\* reverse_used_points the tier of an account is Platinum from 10000 points
\* earned in total, Gold from 5000, Silver from 1000 and Bronze below.
C33_TierFollowsEarned ==
    \A u \in Users :
        accounts[u] # NoRow => accounts[u].tier = TierOf(accounts[u].total_points_earned)

\* An account that earned exactly 10000 points is Platinum, after points
\* were used and reversed on it.
C33_Witness ==
    /\ accounts["u1"].total_points_earned = 10000
    /\ accounts["u1"].tier = "Platinum"
    /\ hist.op = "reverse_used_points"
    /\ LedgerPoints(ledger, "u1", "used") > 0

(***************************************************************************)
(* SpecFulfil: the fulfilment status of one order is updated through the   *)
(* API and through the admin, one call at a time, to any status, forward,  *)
(* backward or again.  The clock of a call is its number.                  *)
(***************************************************************************)
MaxFulfilOps == 4

FulfilmentStatuses == {"pending", "confirmed", "shipped", "delivered"}

UpdateFulfillmentStatus ==
    \E data \in [order_id : {"o1"}, status : FulfilmentStatuses, now : {steps + 1}] :
        /\ steps < MaxFulfilOps
        /\ steps' = steps + 1
        /\ LET r == update_order_status(World, gw, data)
           IN  SetWorld(r.w) /\ Record("update_order_status", data, r.l.ret, r.w)
        /\ UNCHANGED <<gw, proc, tasks>>

AdminSaveModel ==
    \E data \in [order_id : {"o1"}, status : FulfilmentStatuses, now : {steps + 1}] :
        /\ steps < MaxFulfilOps
        /\ steps' = steps + 1
        /\ LET r == save_model(World, gw, data)
           IN  SetWorld(r.w) /\ Record("save_model", data, r.l.ret, r.w)
        /\ UNCHANGED <<gw, proc, tasks>>

NextFulfil == UpdateFulfillmentStatus \/ AdminSaveModel

SpecFulfil == InitTask /\ [][NextFulfil]_vars

\* The timestamp of an order that belongs to a status, 0 for the others.
StampOf(o, status) ==
    IF status = "confirmed" THEN o.confirmed_at
    ELSE IF status = "shipped" THEN o.shipped_at
    ELSE IF status = "delivered" THEN o.delivered_at
    ELSE 0

\* C32: in every step of a sequence of fulfilment updates each of
\* confirmed_at, shipped_at and delivered_at keeps its value once it is
\* set, changes only in a call that moves the order to its status, and is
\* set by the API call that reaches its status while it is unset.
C32_TimestampsWrittenOnce ==
    [][\A s \in {"confirmed", "shipped", "delivered"} :
          /\ StampOf(orders["o1"], s) # 0
                => StampOf(orders'["o1"], s) = StampOf(orders["o1"], s)
          /\ StampOf(orders'["o1"], s) # StampOf(orders["o1"], s)
                => hist'.arg.status = s /\ StampOf(orders'["o1"], s) = hist'.arg.now
          /\ ( /\ hist'.op = "update_order_status"
               /\ hist'.arg.status = s
               /\ StampOf(orders["o1"], s) = 0 )
                => StampOf(orders'["o1"], s) = hist'.arg.now]_vars

\* The order was shipped, moved back to pending, and is shipped again: it
\* has the timestamp of the first time.
C32_Witness ==
    /\ hist.op = "update_order_status"
    /\ hist.arg.status = "shipped"
    /\ orders["o1"].status = "shipped"
    /\ orders["o1"].shipped_at # 0
    /\ orders["o1"].shipped_at < hist.arg.now - 1
    /\ hist.before.orders["o1"].status = "pending"

\* The latest call was refund_payment for an order that exists.
Refund == hist.op = "refund_payment" /\ hist.before.orders[hist.arg.order_id] # NoRow

\* refund_payment could go on to the gateway: the payment is a success and
\* the order is not refunded yet.
Refundable(o) == o.payment_status = "success" /\ o.status # "refunded"

\* C34: a refund_payment call leaves the order refunded / refunded, changed
\* by the call, only if its payment_status was success and the gateway
\* accepted the refund, and then it does; a call whose precondition fails
\* makes no gateway call and changes nothing; a call whose gateway call
\* raises leaves the order as it was.
C34_RefundPreconditions ==
    Refund =>
        LET id == hist.arg.order_id
            before == hist.before.orders[id]
            run == refund_payment(hist.before, gw, hist.arg)
        IN  /\ orders[id] # before
                => /\ before.payment_status = "success"
                   /\ hist.arg.gateway = "refunded"
                   /\ orders[id].status = "refunded"
                   /\ orders[id].payment_status = "refunded"
            /\ (Refundable(before) /\ hist.arg.gateway = "refunded")
                => orders[id].status = "refunded" /\ orders[id].payment_status = "refunded"
            /\ ~Refundable(before)
                => run.l.result = "none" /\ World = hist.before /\ hist.ret = "400"
            /\ hist.arg.gateway = "raises" => World = hist.before /\ hist.ret = "400"

\* A paid order was refunded.
C34_Witness ==
    /\ Refund
    /\ hist.before.orders["o1"].payment_status = "success"
    /\ hist.before.orders["o1"].status = "paid"
    /\ hist.arg.gateway = "refunded"
    /\ hist.ret = "200"
    /\ orders["o1"].status = "refunded"
    /\ orders["o1"].payment_status = "refunded"

FailedByPoll(w, id) ==
    /\ w.orders[id] # NoRow
    /\ w.orders[id].payment_status = "failed"
    /\ PaymentTransactions(w, id, "failed") = {}
    /\ QueueCount(w, id, "send_payment_failed_email") = 0

\* C37: when the failure handling of the order (handle_failed_payment) runs
\* for an order that used n > 0 points and that the verify poll has marked
\* failed, the n points are back on the account afterwards, with exactly
\* one 'reversal' ledger row of the order.
C37_PollFailureIsReversed ==
    ( /\ hist.op = "handle_failed_payment"
      /\ FailedByPoll(hist.before, hist.arg)
      /\ hist.before.orders[hist.arg].user # NoUser
      /\ hist.before.orders[hist.arg].loyalty_points_used > 0 )
    => /\ LedgerCount(World, hist.arg, "reversal") = 1
       /\ accounts[orders[hist.arg].user].current_balance
              = hist.before.accounts[orders[hist.arg].user].current_balance
                    + orders[hist.arg].loyalty_points_used

(***************************************************************************)
(* SpecCheckoutFail: the concurrent checkouts of SpecCheckout, and the     *)
(* failure handling of the orders they leave.                              *)
(***************************************************************************)
FailPayment ==
    \E id \in OrderIds :
        /\ orders[id] # NoRow
        /\ SetWorld(handle_failed_payment(World, orders[id]).w)
        /\ UNCHANGED <<gw, proc, hist, steps, tasks>>

NextCheckoutFail == StartCheckout \/ ProcStep \/ FailPayment

SpecCheckoutFail == InitCheckout /\ [][NextCheckoutFail]_vars

\* Points of the ledger rows of one type of an order.
RECURSIVE OrderPoints(_, _, _)
OrderPoints(rows, id, type) ==
    IF rows = << >> THEN 0
    ELSE (IF Head(rows).order = id /\ Head(rows).transaction_type = type
          THEN Head(rows).points ELSE 0) + OrderPoints(Tail(rows), id, type)

\* C38: the points reversed onto an account for an order are at most the
\* points debited from it for that order, total_points_used of an account
\* is never negative, and an account never holds more points than it had
\* earned before the checkouts.
C38_ReversalWithinDebit ==
    /\ \A id \in OrderIds :
          OrderPoints(ledger, id, "reversal") <= OrderPoints(ledger, id, "used")
    /\ \A u \in Users :
          accounts[u] # NoRow =>
              /\ accounts[u].total_points_used >= 0
              /\ accounts[u].current_balance <= accounts[u].total_points_earned

(***************************************************************************)
(* SpecRefund: two refund_payment requests for order "o1" run              *)
(* concurrently, one store access or gateway call per step.  The order     *)
(* was checked out and a charge.success event about it was processed, so   *)
(* it is paid when the gateway says so.                                    *)
(***************************************************************************)
InitRefund ==
    /\ \E b \in {0, MaxPoints}, data \in CheckoutData({"o1"}), s \in GatewayStatuses,
          event_data \in TaskEvents :
          LET g == [o \in OrderIds |-> IF o = "o1" THEN s ELSE "unknown"]
              r == create_order(StoreWithPoints(b), g, data)
          IN  /\ r.l.ret = "201"
              /\ event_data.event = "charge.success"
              /\ InitStore(process_webhook_event(r.w, g, event_data).w)
              /\ gw = g
    /\ proc = [p \in Procs |-> Idle]
    /\ hist = NoHist
    /\ steps = 0

\* POST payments/refund/<order_id>; the gateway accepts the refund or the
\* call raises.
StartRefund ==
    \E p \in Procs, data \in [order_id : {"o1"}, gateway : {"refunded", "raises"}] :
        /\ proc[p].kind = "idle"
        /\ Begin(p, Start("refund", "rf_find", data))

NextRefund == StartRefund \/ ProcStep

SpecRefund == InitRefund /\ [][NextRefund]_vars

\* The request of p has called refund_transaction for order id.
RefundIssued(p, id) ==
    /\ proc[p].kind = "refund"
    /\ proc[p].data.order_id = id
    /\ proc[p].result # "none"

\* C39: whatever the interleaving of the refund_payment requests for one
\* order, at most one of them calls the gateway's refund for it.
C39_RefundIssuedAtMostOnce ==
    \A id \in OrderIds : Cardinality({p \in Procs : RefundIssued(p, id)}) <= 1

(***************************************************************************)
(* The periodic sweep retry_failed_webhook_events (tasks.py l.156-185).    *)
(***************************************************************************)
processing_attempts_ceiling == 5
SweepLimit == 10

\* The first n rows of the keys S, newest first (Meta.ordering of
\* PaystackEvent is -created_at; keys grow with the time of creation).
RECURSIVE NewestFirst(_, _, _)
NewestFirst(w, S, n) ==
    IF S = {} \/ n = 0 THEN << >>
    ELSE LET i == CHOOSE j \in S : \A k \in S : k <= j
         IN  <<w.events[i]>> \o NewestFirst(w, S \ {i}, n - 1)

\* A sweep that selects every unprocessed event, whatever its attempts.
failed_events_no_ceiling(w) ==
    NewestFirst(w, {i \in 1..Len(w.events) :
                       /\ w.events[i] # NoRow
                       /\ ~w.events[i].processed}, SweepLimit)

\* l.164-167: filter(processed=False, processing_attempts__lt=5)[:10]
failed_events(w) ==
    NewestFirst(w, {i \in 1..Len(w.events) :
                       /\ w.events[i] # NoRow
                       /\ ~w.events[i].processed
                       /\ w.events[i].processing_attempts < processing_attempts_ceiling},
                SweepLimit)

\* l.172-179: every selected event is processed from its stored payload;
\* the store write named by fault fails in each of these runs.
RECURSIVE retry_each(_, _, _, _, _)
retry_each(w, g, evs, fault, success_count) ==
    IF evs = << >> THEN [w |-> w, success_count |-> success_count]
    ELSE LET r == process_webhook_event_with(w, g, Head(evs).event_data, fault)
         IN  retry_each(r.w, g, Tail(evs), fault,
                        IF r.l.ret = "True" THEN success_count + 1 ELSE success_count)

retry_failed_webhook_events(w, g, fault) ==
    LET evs == failed_events(w)
        r == retry_each(w, g, evs, fault, 0)
    IN  [w |-> r.w, retried |-> Len(evs), succeeded |-> r.success_count]

(***************************************************************************)
(* SpecSweep: webhook events about order "o1" (or about no order) are      *)
(* processed one after the other, and the sweep runs between them.         *)
(***************************************************************************)
MaxSweepOps == 5

SweepEvents ==
    {e \in WebhookEvents :
        e.reference = "o1" /\ e.event \in {"charge.success", "charge.failed"}}

SweepCall(w, op, arg, ret) ==
    /\ steps < MaxSweepOps
    /\ steps' = steps + 1
    /\ SetWorld(w)
    /\ Record(op, arg, ret, w)
    /\ UNCHANGED <<gw, proc, tasks>>

ProcessStoredOrNewEvent ==
    \E event_data \in SweepEvents, fault \in {"none", "mark"} :
        /\ steps < MaxSweepOps
        /\ LET r == process_webhook_event_with(World, gw, event_data, fault)
           IN  SweepCall(r.w, "process_webhook_event",
                         [event_data |-> event_data, fault |-> fault], r.l.ret)

RetryFailedWebhookEvents ==
    \E fault \in {"none", "mark"} :
        /\ steps < MaxSweepOps
        /\ LET r == retry_failed_webhook_events(World, gw, fault)
           IN  SweepCall(r.w, "retry_failed_webhook_events", fault,
                         [retried |-> r.retried, succeeded |-> r.succeeded])

NextSweep == ProcessStoredOrNewEvent \/ RetryFailedWebhookEvents

SpecSweep == InitTask /\ [][NextSweep]_vars

\* The rows the sweep must not select: processed, or at or above the ceiling.
Settled(row) ==
    row.processed \/ row.processing_attempts >= processing_attempts_ceiling

Swept == hist.op = "retry_failed_webhook_events"

PeriodicSweep ==
    \E fault \in {"none", "mark"} :
        /\ failed_events(World) # << >>
        /\ UNCHANGED <<gw, proc, steps, tasks>>
        /\ LET r == retry_failed_webhook_events(World, gw, fault)
           IN  /\ SetWorld(r.w)
               /\ Record("retry_failed_webhook_events", fault,
                         [retried |-> r.retried, succeeded |-> r.succeeded], r.w)

NextRetry == Deliver \/ RunTask \/ PeriodicSweep

SpecRetry == InitTask /\ [][NextRetry]_vars

SpecRetryFair == SpecRetry /\ WF_vars(RunTask) /\ WF_vars(PeriodicSweep)

\* Every stored event is processed or at or above the ceiling.
AllSettled == \A i \in 1..Len(events) : Settled(events[i])

\* No message waits in the queue and the sweep has nothing to select.
Quiescent == tasks = EmptyBag /\ failed_events(World) = << >>

\* A step makes no processing attempt for an event that was settled.
NoAttemptOnSettled ==
    \A i \in 1..Len(events) :
        Settled(events[i]) =>
            events'[i].processing_attempts = events[i].processing_attempts

\* The runs end: from some point on every stored event is settled and
\* nothing is left to run.
ProcessingEnds == <>[](AllSettled /\ Quiescent)

====
